---- MODULE Spec2Model ----
(***************************************************************************)
(* A model of runhouse's ClusterServlet                                    *)
(* (src/runhouse/servers/cluster_servlet.py): the key-to-env-servlet       *)
(* directory, the auth resolver, the status aggregation and the loop that  *)
(* posts the status to Den.                                                *)
(*                                                                         *)
(* The async methods of the servlet run on one event loop: a method is one *)
(* atomic step up to its first real suspension point (an asyncio.gather    *)
(* over calls to other processes, an asyncio.sleep).  Awaiting another     *)
(* coroutine of the servlet that never suspends does not yield.            *)
(***************************************************************************)
EXTENDS Integers, Sequences, FiniteSets, TLC

\* ------------------------------------------------------------------ bounds
NumEnvs == 2
NumKeys == 2
MaxTime == 2

\* ------------------------------------------------------------ value domains
\* Python's None
None == "None"

AllEnvNames == <<"envA", "envB", "envC", "envD">>
EnvNames == {AllEnvNames[i] : i \in 1..NumEnvs}

AllKeys == <<"k1", "k2", "k3", "k4">>
Keys == {AllKeys[i] : i \in 1..NumKeys}

\* the name of the cluster, cluster_config["name"], and a resource on it
ClusterName == "/owner/cluster"
ResourceName == "org/res1"
ResourceUris == {ClusterName, ResourceName, None}

\* ResourceAccess.WRITE, ResourceAccess.READ
WRITE == "write"
READ == "read"
AccessLevels == {None, READ, WRITE}

\* rns_client.cluster_token: the cluster-scoped token derived from a Den
\* token for a resource
cluster_token(den_token, resource_uri) ==
    "ct(" \o den_token \o "," \o resource_uri \o ")"

\* the values of configs.token: not set, empty, set
OwnerTokens == {None, "", "OWNER"}

\* the tokens a request carries
Tokens == {None, "", "OWNER", "tokA"}
              \cup {cluster_token("OWNER", u) : u \in ResourceUris}

\* the tokens the auth cache holds entries for
CachedTokens == {"OWNER", "tokA"}

EmptyCache == [e \in CachedTokens \X ResourceUris |-> None]

VARIABLES
    initialized,     \* self._initialized_env_servlet_names : Set[str]
    key_to_env,      \* self._key_to_env_servlet_name : dict, as the sequence of
                     \* its <<key, env>> items in insertion order
    last_activity,   \* self._last_activity
    sky_last_active, \* sky's autostop_last_active_time; 0 when none is recorded
    now,             \* time.time()
    autostop,        \* the autostop thread of __init__, and sky on this node
    owner_token,     \* configs.token, the Den token of the owner of the cluster
    auth_cache,      \* the entries of self._auth_cache, by <<token, resource_uri>>
    auth_trace,      \* the lookups the last call made in self._auth_cache
    cluster_config,  \* self.cluster_config : dict, as a function on its keys
    env_config,      \* the copy of the cluster config each env servlet holds
    writes,          \* per writer, the config write it is waiting in
    calls,           \* the set-config calls to env servlets that are running
    polls,           \* per caller of astatus, the locals of the running call
    reporter,        \* the locals of asend_status_info_to_den, its place, and
                     \* the waits it made since its last cycle started
    den_post,        \* the body of the last status POST Den received
    last             \* the last call made on the servlet and its outcome

timeVars == <<last_activity, sky_last_active, now, autostop>>

authVars == <<owner_token, auth_cache, auth_trace>>

cfgVars == <<cluster_config, env_config, writes, calls>>

statVars == <<polls, reporter, den_post>>

\* what the directory's methods leave alone
restVars == <<authVars, cfgVars, statVars>>

vars == <<initialized, key_to_env, last_activity, sky_last_active, now,
          autostop, owner_token, auth_cache, auth_trace, cluster_config, env_config,
          writes, calls, polls, reporter, den_post, last>>

\* ------------------------------------------------------- Python dict helpers
\* a dict is the sequence of its items <<key, value>>, in insertion order

DictKeys(d) == {d[i][1] : i \in DOMAIN d}

DictHas(d, k) == k \in DictKeys(d)

\* d.get(k, default)
DictGet(d, k, default) ==
    IF DictHas(d, k)
    THEN LET i == CHOOSE j \in DOMAIN d : d[j][1] = k IN d[i][2]
    ELSE default

\* d[k] = v : an existing key keeps its place, a new key goes last
DictSet(d, k, v) ==
    IF DictHas(d, k)
    THEN [i \in DOMAIN d |-> IF d[i][1] = k THEN <<k, v>> ELSE d[i]]
    ELSE Append(d, <<k, v>>)

\* the dict without key k (the state change of d.pop(k))
DictDel(d, k) == SelectSeq(d, LAMBDA item : item[1] # k)

\* [key for key, env in d.items() if env == v], in iteration order
KeysWithValue(d, v) ==
    LET hits == SelectSeq(d, LAMBDA item : item[2] = v)
    IN  [i \in DOMAIN hits |-> hits[i][1]]

\* the elements of a sequence
Range(s) == {s[i] : i \in DOMAIN s}

\* a call that waits in a gather and has not returned
SUSPENDED == "suspended"

\* the outcome of a call: its name, its arguments, the exception it raised
\* (None when it returned, SUSPENDED while it waits) and the value it returned
Outcome(op, args, exc, ret) == [op |-> op, args |-> args, exc |-> exc, ret |-> ret]

\* --------------------------------------------------------------- construction

\* the callers of astatus: a request and the loop that reports to Den
Callers == {"request", "reporter"}

\* the callers of the config setters: a request and the loop that reports to Den
Writers == {"request", "reporter"}

\* no astatus call is running
IdlePoll == [pc |-> "idle", config_cluster |-> <<>>, tasks |-> {},
             started_with |-> {}, replies |-> <<>>]

\* no config write is running
IdleWrite == [pc |-> "idle", awaiting |-> {}, method |-> None, key |-> None]

\* the node of a cluster that is no OnDemandCluster: __init__ starts no
\* autostop thread.  sky_installed says whether sky.skylet can be imported,
\* idle_minutes is autostop_idle_minutes of sky's autostop_config, wake is
\* the time at which time.sleep(30) of update_autostop is over, and node says
\* whether the node is up, was stopped by sky, or has no servlet because
\* __init__ raised.
NoAutostop ==
    [thread |-> "none", sky_installed |-> TRUE, idle_minutes |-> -1, wake |-> 0,
     node |-> "up"]

\* ClusterServlet.__init__, but for the cluster config and the owner's token:
\* nothing is initialized, no key is mapped, the auth cache is empty, no call
\* is running and the loop that reports to Den is not scheduled
InitServlet ==
    /\ initialized = {}
    /\ key_to_env = <<>>
    /\ last_activity = 0
    /\ sky_last_active = 0
    /\ now = 0
    /\ autostop = NoAutostop
    /\ auth_cache = EmptyCache
    /\ auth_trace = <<>>
    /\ env_config = [e \in EnvNames |-> <<>>]
    /\ writes = [w \in Writers |-> IdleWrite]
    /\ calls = {}
    /\ polls = [c \in Callers |-> IdlePoll]
    /\ reporter = [pc |-> "unscheduled", interval_size |-> <<>>, after |-> "loop",
                   slept |-> <<>>]
    /\ den_post = <<>>
    /\ last = Outcome("__init__", <<>>, None, None)

\* ---------------------------------------------------------------- directory

\* ClusterServlet.ais_env_servlet_name_initialized
ais_env_servlet_name_initialized(env_servlet_name) ==
    env_servlet_name \in initialized

\* ClusterServlet.amark_env_servlet_name_as_initialized
amark_env_servlet_name_as_initialized(env_servlet_name) ==
    /\ initialized' = initialized \cup {env_servlet_name}
    /\ last' = Outcome("amark_env_servlet_name_as_initialized",
                       <<env_servlet_name>>, None, None)
    /\ UNCHANGED <<key_to_env, timeVars, restVars>>

\* ClusterServlet.aget_env_servlet_name_for_key
aget_env_servlet_name_for_key(key) ==
    /\ last_activity' = now
    /\ last' = Outcome("aget_env_servlet_name_for_key", <<key>>, None,
                       DictGet(key_to_env, key, None))
    /\ UNCHANGED <<initialized, key_to_env, sky_last_active, now, autostop,
                   restVars>>

\* a put that skips the check of the env servlet name
aput_env_servlet_name_for_key_unchecked(key, env_servlet_name) ==
    /\ key_to_env' = DictSet(key_to_env, key, env_servlet_name)
    /\ last' = Outcome("aput_env_servlet_name_for_key",
                       <<key, env_servlet_name>>, None, None)
    /\ UNCHANGED <<initialized, timeVars, restVars>>

\* ClusterServlet.aput_env_servlet_name_for_key
aput_env_servlet_name_for_key(key, env_servlet_name) ==
    IF ~ais_env_servlet_name_initialized(env_servlet_name)
    THEN /\ last' = Outcome("aput_env_servlet_name_for_key",
                            <<key, env_servlet_name>>, "ValueError", None)
         /\ UNCHANGED <<initialized, key_to_env, timeVars, restVars>>
    ELSE /\ key_to_env' = DictSet(key_to_env, key, env_servlet_name)
         /\ last' = Outcome("aput_env_servlet_name_for_key",
                            <<key, env_servlet_name>>, None, None)
         /\ UNCHANGED <<initialized, timeVars, restVars>>

\* a pop that answers None for a missing key when no default is passed
apop_env_servlet_name_for_key_lenient(key, args) ==
    /\ key_to_env' = DictDel(key_to_env, key)
    /\ last' = Outcome("apop_env_servlet_name_for_key", <<key, args>>, None,
                       IF DictHas(key_to_env, key)
                       THEN DictGet(key_to_env, key, None)
                       ELSE IF Len(args) = 1 THEN args[1] ELSE None)
    /\ UNCHANGED <<initialized, timeVars, restVars>>

\* ClusterServlet.apop_env_servlet_name_for_key: dict.pop(key, *args), with
\* args the empty tuple (no default) or a one-tuple (the default)
apop_env_servlet_name_for_key(key, args) ==
    IF DictHas(key_to_env, key)
    THEN /\ key_to_env' = DictDel(key_to_env, key)
         /\ last' = Outcome("apop_env_servlet_name_for_key", <<key, args>>,
                            None, DictGet(key_to_env, key, None))
         /\ UNCHANGED <<initialized, timeVars, restVars>>
    ELSE IF Len(args) = 1
    THEN /\ last' = Outcome("apop_env_servlet_name_for_key", <<key, args>>,
                            None, args[1])
         /\ UNCHANGED <<initialized, key_to_env, timeVars, restVars>>
    ELSE /\ last' = Outcome("apop_env_servlet_name_for_key", <<key, args>>,
                            "KeyError", None)
         /\ UNCHANGED <<initialized, key_to_env, timeVars, restVars>>

\* ClusterServlet.aclear_key_to_env_servlet_name_dict
aclear_key_to_env_servlet_name_dict ==
    /\ key_to_env' = <<>>
    /\ last' = Outcome("aclear_key_to_env_servlet_name_dict", <<>>, None, None)
    /\ UNCHANGED <<initialized, timeVars, restVars>>

\* a retire that forgets the worker and leaves its keys in the dict
aclear_all_references_keeps_keys(env_servlet_name) ==
    IF env_servlet_name \notin initialized
    THEN /\ last' = Outcome("aclear_all_references_to_env_servlet_name",
                            <<env_servlet_name>>, "KeyError", <<>>)
         /\ UNCHANGED <<initialized, key_to_env, timeVars, restVars>>
    ELSE /\ initialized' = initialized \ {env_servlet_name}
         /\ last' = Outcome("aclear_all_references_to_env_servlet_name",
                            <<env_servlet_name>>, None,
                            KeysWithValue(key_to_env, env_servlet_name))
         /\ UNCHANGED <<key_to_env, timeVars, restVars>>

\* a retire that drops every key of the dict
aclear_all_references_drops_all(env_servlet_name) ==
    IF env_servlet_name \notin initialized
    THEN /\ last' = Outcome("aclear_all_references_to_env_servlet_name",
                            <<env_servlet_name>>, "KeyError", <<>>)
         /\ UNCHANGED <<initialized, key_to_env, timeVars, restVars>>
    ELSE /\ initialized' = initialized \ {env_servlet_name}
         /\ key_to_env' = <<>>
         /\ last' = Outcome("aclear_all_references_to_env_servlet_name",
                            <<env_servlet_name>>, None,
                            KeysWithValue(key_to_env, env_servlet_name))
         /\ UNCHANGED <<timeVars, restVars>>

\* ClusterServlet.aclear_all_references_to_env_servlet_name: set.remove raises
\* KeyError for a name that is not in the set, before anything is changed
aclear_all_references_to_env_servlet_name(env_servlet_name) ==
    IF env_servlet_name \notin initialized
    THEN /\ last' = Outcome("aclear_all_references_to_env_servlet_name",
                            <<env_servlet_name>>, "KeyError", <<>>)
         /\ UNCHANGED <<initialized, key_to_env, timeVars, restVars>>
    ELSE LET deleted_keys == KeysWithValue(key_to_env, env_servlet_name)
         IN  /\ initialized' = initialized \ {env_servlet_name}
             /\ key_to_env' = SelectSeq(key_to_env,
                                  LAMBDA item : item[1] \notin Range(deleted_keys))
             /\ last' = Outcome("aclear_all_references_to_env_servlet_name",
                                <<env_servlet_name>>, None, deleted_keys)
             /\ UNCHANGED <<timeVars, restVars>>

\* time passes
Tick ==
    /\ now < MaxTime
    /\ now' = now + 1
    /\ last' = Outcome("tick", <<>>, None, None)
    /\ UNCHANGED <<initialized, key_to_env, last_activity, sky_last_active,
                   autostop, restVars>>

\* ClusterServlet.__init__
InitDir ==
    /\ InitServlet
    /\ owner_token = "OWNER"
    /\ cluster_config = [k \in {"name"} |-> ClusterName]

\* the defaults a caller passes to pop
PopArgs == {<<>>, <<None>>} \cup {<<e>> : e \in EnvNames}

NextDir ==
    \/ \E e \in EnvNames : amark_env_servlet_name_as_initialized(e)
    \/ \E k \in Keys : aget_env_servlet_name_for_key(k)
    \/ \E k \in Keys, e \in EnvNames : aput_env_servlet_name_for_key(k, e)
    \/ \E k \in Keys, a \in PopArgs : apop_env_servlet_name_for_key(k, a)
    \/ aclear_key_to_env_servlet_name_dict
    \/ \E e \in EnvNames : aclear_all_references_to_env_servlet_name(e)
    \/ Tick

SpecDir == InitDir /\ [][NextDir]_vars

\* ------------------------------------------------- claims on the directory

\* the owner of key k in dict d, None when k is not mapped (what ownerOf,
\* aget_env_servlet_name_for_key, returns)
OwnerIn(d, k) == DictGet(d, k, None)

\* the keys of dict d that map to env servlet name w
KeysOf(d, w) == {k \in DictKeys(d) : OwnerIn(d, k) = w}

\* C1: at every point between two calls on the directory, every key of the
\* key-to-worker dict maps to a worker that is in the initialized set.
C1_DirectoryInvariant ==
    \A k \in DictKeys(key_to_env) : OwnerIn(key_to_env, k) \in initialized

\* a worker was retired while keys of another worker stay mapped
C1_Witness ==
    /\ last.op = "aclear_all_references_to_env_servlet_name"
    /\ last.exc = None
    /\ key_to_env # <<>>

\* C2: retiring an initialized worker w removes exactly the keys that mapped
\* to w and returns exactly those keys, each once; every other key keeps its
\* owner, every other worker stays initialized, w is no longer initialized
\* and the returned keys have no owner.
C2_RetireWorkerFrame ==
    [][\A w \in EnvNames :
        (/\ w \in initialized
         /\ last'.op = "aclear_all_references_to_env_servlet_name"
         /\ last'.args = <<w>>)
        => /\ last'.exc = None
           /\ Range(last'.ret) = KeysOf(key_to_env, w)
           /\ Len(last'.ret) = Cardinality(KeysOf(key_to_env, w))
           /\ DictKeys(key_to_env') = DictKeys(key_to_env) \ KeysOf(key_to_env, w)
           /\ \A k \in DictKeys(key_to_env') :
                  OwnerIn(key_to_env', k) = OwnerIn(key_to_env, k)
           /\ initialized' = initialized \ {w}
           /\ \A k \in Range(last'.ret) : OwnerIn(key_to_env', k) = None
      ]_vars

\* a retire returned at least one key and left another worker's key mapped
C2_Witness ==
    /\ last.op = "aclear_all_references_to_env_servlet_name"
    /\ last.exc = None
    /\ Len(last.ret) >= 1
    /\ key_to_env # <<>>
    /\ last.args[1] \notin initialized

\* C3: registering key k under worker w raises ValueError and changes neither
\* the dict nor the initialized set when w is not initialized; when w is
\* initialized the call returns, k maps to w and nothing else changes.
C3_RegisterKey ==
    [][last'.op = "aput_env_servlet_name_for_key"
        => LET k == last'.args[1]
               w == last'.args[2]
           IN  IF w \notin initialized
               THEN /\ last'.exc = "ValueError"
                    /\ key_to_env' = key_to_env
                    /\ initialized' = initialized
               ELSE /\ last'.exc = None
                    /\ OwnerIn(key_to_env', k) = w
                    /\ DictKeys(key_to_env') = DictKeys(key_to_env) \cup {k}
                    /\ \A j \in DictKeys(key_to_env) \ {k} :
                           OwnerIn(key_to_env', j) = OwnerIn(key_to_env, j)
                    /\ initialized' = initialized
      ]_vars

\* a put under a worker that is not initialized failed while keys are mapped
C3_Witness ==
    /\ last.op = "aput_env_servlet_name_for_key"
    /\ last.exc = "ValueError"
    /\ key_to_env # <<>>
    /\ last.args[2] \notin initialized

\* C4 as claimed: unregistering a key never fails; a mapped key is removed
\* and its owner returned, an unmapped key returns the default, or None when
\* no default was passed, and leaves the dict unchanged.
C4_UnregisterNeverFails ==
    [][last'.op = "apop_env_servlet_name_for_key"
        => LET k == last'.args[1]
               a == last'.args[2]
           IN  /\ last'.exc = None
               /\ IF DictHas(key_to_env, k)
                  THEN /\ last'.ret = OwnerIn(key_to_env, k)
                       /\ key_to_env' = DictDel(key_to_env, k)
                  ELSE /\ last'.ret = (IF Len(a) = 1 THEN a[1] ELSE None)
                       /\ key_to_env' = key_to_env
      ]_vars

\* C4 amended: a mapped key is removed and its owner returned; an unmapped
\* key returns the default when one was passed and raises KeyError when none
\* was; the dict is unchanged for an unmapped key.
C4_UnregisterKey ==
    [][last'.op = "apop_env_servlet_name_for_key"
        => LET k == last'.args[1]
               a == last'.args[2]
           IN  IF DictHas(key_to_env, k)
               THEN /\ last'.exc = None
                    /\ last'.ret = OwnerIn(key_to_env, k)
                    /\ key_to_env' = DictDel(key_to_env, k)
                    /\ initialized' = initialized
               ELSE /\ key_to_env' = key_to_env
                    /\ initialized' = initialized
                    /\ IF Len(a) = 1
                       THEN last'.exc = None /\ last'.ret = a[1]
                       ELSE last'.exc = "KeyError"
      ]_vars

\* a pop of an unmapped key without a default raised KeyError
C4_Witness ==
    /\ last.op = "apop_env_servlet_name_for_key"
    /\ last.exc = "KeyError"
    /\ last.args[2] = <<>>
    /\ ~DictHas(key_to_env, last.args[1])

\* ------------------------------------------------------------ auth resolver

\* a Python value that is true in a condition (for the tokens: neither None
\* nor the empty string)
Truthy(v) == v \notin {None, ""}

\* AuthCache.lookup_access_level: the level the cache holds, None without one
lookup_access_level(token, resource_uri) ==
    IF <<token, resource_uri>> \in DOMAIN auth_cache
    THEN auth_cache[<<token, resource_uri>>]
    ELSE None

\* an access level resolved without the owner's bypass
aresource_access_level_cache_only(token, resource_uri) ==
    [ret |-> lookup_access_level(token, resource_uri),
     lookups |-> << <<token, resource_uri>> >>]

\* ClusterServlet.aresource_access_level: the level returned and the lookups
\* made in the auth cache
aresource_access_level(token, resource_uri) ==
    IF Truthy(owner_token)
       /\ (\/ owner_token = token
           \/ cluster_token(owner_token, resource_uri) = token)
    THEN [ret |-> WRITE, lookups |-> <<>>]
    ELSE [ret |-> lookup_access_level(token, resource_uri),
          lookups |-> << <<token, resource_uri>> >>]

\* a call of aresource_access_level
call_aresource_access_level(token, resource_uri) ==
    LET r == aresource_access_level(token, resource_uri)
    IN  /\ last' = Outcome("aresource_access_level", <<token, resource_uri>>,
                           None, r.ret)
        /\ auth_trace' = r.lookups
        /\ UNCHANGED <<initialized, key_to_env, timeVars, owner_token,
                       auth_cache, cfgVars, statVars>>

\* an access check that lets cluster-level write decide only for the cluster
ahas_resource_access_no_override(token, resource_uri) ==
    LET ra == aresource_access_level(token, resource_uri)
    IN  /\ last' = Outcome("ahas_resource_access", <<token, resource_uri>>,
                           None, ra.ret \in {WRITE, READ})
        /\ auth_trace' = ra.lookups
        /\ UNCHANGED <<initialized, key_to_env, timeVars, owner_token,
                       auth_cache, cfgVars, statVars>>

\* ClusterServlet.ahas_resource_access
ahas_resource_access(token, resource_uri) ==
    /\ UNCHANGED <<initialized, key_to_env, timeVars, owner_token,
                   auth_cache, cfgVars, statVars>>
    /\ IF token = None
       THEN /\ last' = Outcome("ahas_resource_access",
                               <<token, resource_uri>>, None, FALSE)
            /\ auth_trace' = <<>>
       ELSE IF "name" \notin DOMAIN cluster_config
       THEN /\ last' = Outcome("ahas_resource_access",
                               <<token, resource_uri>>, "KeyError", FALSE)
            /\ auth_trace' = <<>>
       ELSE LET cluster_uri == cluster_config["name"]
                cluster_access == aresource_access_level(token, cluster_uri)
                resource_access == aresource_access_level(token, resource_uri)
            IN  IF cluster_access.ret = WRITE
                THEN /\ last' = Outcome("ahas_resource_access",
                                        <<token, resource_uri>>, None, TRUE)
                     /\ auth_trace' = cluster_access.lookups
                ELSE IF resource_uri = None
                        /\ cluster_access.ret \notin {WRITE, READ}
                THEN /\ last' = Outcome("ahas_resource_access",
                                        <<token, resource_uri>>, None, FALSE)
                     /\ auth_trace' = cluster_access.lookups
                ELSE /\ last' = Outcome("ahas_resource_access",
                                        <<token, resource_uri>>, None,
                                        resource_access.ret \in {WRITE, READ})
                     /\ auth_trace' = cluster_access.lookups
                                          \o resource_access.lookups

\* ClusterServlet.aclear_auth_cache: AuthCache.clear_cache(token) drops the
\* entries of the token, every entry when the token is None
aclear_auth_cache(token) ==
    /\ auth_cache' = [e \in DOMAIN auth_cache |->
                          IF token = None \/ e[1] = token
                          THEN None ELSE auth_cache[e]]
    /\ auth_trace' = <<>>
    /\ last' = Outcome("aclear_auth_cache", <<token>>, None, None)
    /\ UNCHANGED <<initialized, key_to_env, timeVars, owner_token, cfgVars,
                   statVars>>

\* the auth cache loads the access level Den holds for a token and a resource
CacheLoad(token, resource_uri, level) ==
    /\ auth_cache' = [auth_cache EXCEPT ![<<token, resource_uri>>] = level]
    /\ auth_trace' = <<>>
    /\ last' = Outcome("cache_load", <<token, resource_uri>>, None, level)
    /\ UNCHANGED <<initialized, key_to_env, timeVars, owner_token, cfgVars,
                   statVars>>

\* ClusterServlet.__init__, for an owner token and a cluster config with or
\* without a name
InitAuth ==
    /\ InitServlet
    /\ owner_token \in OwnerTokens
    /\ cluster_config \in {[k \in {"name"} |-> ClusterName], [k \in {} |-> None]}

NextAuth ==
    \/ \E t \in Tokens, u \in ResourceUris : call_aresource_access_level(t, u)
    \/ \E t \in Tokens, u \in ResourceUris : ahas_resource_access(t, u)
    \/ \E t \in CachedTokens \cup {None} : aclear_auth_cache(t)
    \/ \E t \in CachedTokens, u \in ResourceUris, l \in {READ, WRITE} :
           CacheLoad(t, u, l)

SpecAuth == InitAuth /\ [][NextAuth]_vars

\* ---------------------------------------------- claims on the auth resolver

\* the token of the call in `last` is the owner's token, or the cluster
\* token derived from it for the resource of the call
IsOwnerCredential(call) ==
    \/ call.args[1] = owner_token
    \/ call.args[1] = cluster_token(owner_token, call.args[2])

\* C5 as claimed: for every value of the owner's token and every state of
\* the auth cache, a token equal to the owner's token, or to the cluster
\* token derived from it, resolves to write and the cache is not consulted.
C5_OwnerAlwaysWrite ==
    [][(last'.op = "aresource_access_level" /\ IsOwnerCredential(last'))
        => (last'.ret = WRITE /\ auth_trace' = <<>>)
      ]_vars

\* C5 amended: when the owner's token is set (neither None nor empty), a
\* token equal to it, or to the cluster token derived from it for the
\* resource, resolves to write for every resource and every state of the
\* auth cache, and the cache is not consulted.
C5_SetOwnerAlwaysWrite ==
    [][(/\ last'.op = "aresource_access_level"
        /\ Truthy(owner_token)
        /\ IsOwnerCredential(last'))
        => (last'.ret = WRITE /\ auth_trace' = <<>>)
      ]_vars

\* the owner's token resolved to write while the cache holds read for it
C5_Witness ==
    /\ last.op = "aresource_access_level"
    /\ Truthy(owner_token)
    /\ last.args[1] = owner_token
    /\ lookup_access_level(last.args[1], last.args[2]) = READ
    /\ last.ret = WRITE
    /\ auth_trace = <<>>

\* C6: when the access level of a token (not None) for the cluster's own
\* name is write, the access check is true for every resource, None
\* included, and the level of the resource is not looked up.
C6_ClusterWriteOverrides ==
    [][(/\ last'.op = "ahas_resource_access"
        /\ last'.args[1] # None
        /\ "name" \in DOMAIN cluster_config
        /\ aresource_access_level(last'.args[1], cluster_config["name"]).ret
               = WRITE)
        => /\ last'.exc = None
           /\ last'.ret = TRUE
           /\ auth_trace' = aresource_access_level(
                                last'.args[1], cluster_config["name"]).lookups
      ]_vars

\* a token with write on the cluster in the cache was given access to a
\* resource the cache holds no level for
C6_Witness ==
    /\ last.op = "ahas_resource_access"
    /\ last.args = <<"tokA", ResourceName>>
    /\ owner_token = "OWNER"
    /\ "name" \in DOMAIN cluster_config
    /\ lookup_access_level("tokA", cluster_config["name"]) = WRITE
    /\ lookup_access_level("tokA", ResourceName) = None
    /\ last.ret = TRUE

\* C7 as claimed: with no resource named, the cluster-level access alone
\* decides: a token with read on the cluster has access whatever the cache
\* holds for the resource None, and a token with neither read nor write on
\* the cluster has none.
C7_NamelessResourceClusterDecides ==
    [][(/\ last'.op = "ahas_resource_access"
        /\ last'.args[1] # None
        /\ last'.args[2] = None
        /\ "name" \in DOMAIN cluster_config)
        => LET cluster_access ==
                   aresource_access_level(last'.args[1],
                                          cluster_config["name"]).ret
           IN  /\ cluster_access = READ => last'.ret = TRUE
               /\ cluster_access \notin {READ, WRITE} => last'.ret = FALSE
      ]_vars

\* ------------------------------------------------------------- config store

\* INCREASED_STATUS_CHECK_INTERVAL of runhouse.constants, in units of the
\* model's clock
INCREASED_STATUS_CHECK_INTERVAL == 2

\* the den_status_ping_interval that stops the reports to Den
DISABLED_INTERVAL == -1

\* d[k] = v on a dict held as a function
CfgSet(d, k, v) == [x \in DOMAIN d \cup {k} |-> IF x = k THEN v ELSE d[x]]

\* d.pop(k, None) on a dict held as a function
CfgPop(d, k) == [x \in DOMAIN d \ {k} |-> d[x]]

\* d.get(k), as <<value>>, and <<>> for None
CfgGet(d, k) == IF k \in DOMAIN d THEN <<d[k]>> ELSE <<>>

\* the call of a setter on one env servlet (obj_store.acall_env_servlet_method)
EnvCall(writer, env, method, key, value) ==
    [writer |-> writer, env |-> env, method |-> method, key |-> key,
     value |-> value, attached |-> TRUE]

\* the asyncio.gather of the setters over the initialized env servlets: with
\* none there is nothing to wait for and the setter goes on
FanOut(writer, method, key, value) ==
    IF initialized = {}
    THEN UNCHANGED <<writes, calls>>
    ELSE /\ writes' = [writes EXCEPT ![writer] =
                          [pc |-> "fanout", awaiting |-> initialized,
                           method |-> method, key |-> key]]
         /\ calls' = calls \cup
                {EnvCall(writer, e, method, key, value) : e \in initialized}

\* the setter of writer was suspended in its gather by this step
Suspended(writer) == writes'[writer].pc = "fanout"

\* ClusterServlet.aset_cluster_config up to its gather, run by a writer
SetConfig(writer, new_config) ==
    /\ writes[writer].pc = "idle"
    /\ cluster_config' = new_config
    /\ FanOut(writer, "aset_cluster_config", None, new_config)
    /\ UNCHANGED <<env_config, timeVars>>

\* a setter that counts only a positive autostop_mins as activity
SetConfigValue_positive_only(writer, key, value) ==
    /\ writes[writer].pc = "idle"
    /\ IF key = "autostop_mins" /\ value > 0
       THEN /\ last_activity' = now
            /\ sky_last_active' = now
            /\ UNCHANGED <<now, autostop>>
       ELSE UNCHANGED timeVars
    /\ cluster_config' = CfgSet(cluster_config, key, value)
    /\ FanOut(writer, "aset_cluster_config_value", key, value)
    /\ UNCHANGED env_config

\* ClusterServlet.aset_cluster_config_value up to its gather, run by a writer
SetConfigValue(writer, key, value) ==
    /\ writes[writer].pc = "idle"
    /\ IF key = "autostop_mins" /\ value > -1
       THEN /\ last_activity' = now
            /\ sky_last_active' = now
            /\ UNCHANGED <<now, autostop>>
       ELSE UNCHANGED timeVars
    /\ cluster_config' = CfgSet(cluster_config, key, value)
    /\ FanOut(writer, "aset_cluster_config_value", key, value)
    /\ UNCHANGED env_config

\* ClusterServlet.aget_cluster_config
aget_cluster_config ==
    /\ last' = Outcome("aget_cluster_config", <<>>, None, cluster_config)
    /\ UNCHANGED <<initialized, key_to_env, timeVars, authVars, cfgVars, statVars>>

\* ClusterServlet.aset_cluster_config, called by a request
aset_cluster_config(new_config) ==
    /\ SetConfig("request", new_config)
    /\ last' = IF Suspended("request")
               THEN Outcome("aset_cluster_config", <<new_config>>, SUSPENDED, None)
               ELSE Outcome("aset_cluster_config", <<new_config>>, None,
                            cluster_config')
    /\ UNCHANGED <<initialized, key_to_env, authVars, statVars>>

\* the import of sky.skylet in aset_cluster_config_value raises ImportError
SkyImportFails(key, value) ==
    /\ key = "autostop_mins"
    /\ value > -1
    /\ ~autostop.sky_installed

\* ClusterServlet.aset_cluster_config_value, called by a request
aset_cluster_config_value(key, value) ==
    IF SkyImportFails(key, value)
    THEN /\ writes["request"].pc = "idle"
         /\ last' = Outcome("aset_cluster_config_value", <<key, value>>,
                            "ImportError", None)
         /\ UNCHANGED <<initialized, key_to_env, timeVars, authVars, cfgVars,
                        statVars>>
    ELSE /\ SetConfigValue("request", key, value)
         /\ last' = IF Suspended("request")
                    THEN Outcome("aset_cluster_config_value", <<key, value>>,
                                 SUSPENDED, None)
                    ELSE Outcome("aset_cluster_config_value", <<key, value>>,
                                 None, cluster_config')
         /\ UNCHANGED <<initialized, key_to_env, authVars, statVars>>

\* a setter that returns without waiting for its set-config calls
config_write_returns_early ==
    /\ writes["request"].pc = "fanout"
    /\ writes' = [writes EXCEPT !["request"] = IdleWrite]
    /\ last' = Outcome(writes["request"].method, <<writes["request"].key>>,
                       None, cluster_config)
    /\ UNCHANGED <<initialized, key_to_env, timeVars, authVars, cluster_config,
                   env_config, calls, statVars>>

\* the gather of a request's setter is done: the setter returns the config
config_write_returns ==
    /\ writes["request"].pc = "fanout"
    /\ writes["request"].awaiting = {}
    /\ writes' = [writes EXCEPT !["request"] = IdleWrite]
    /\ last' = Outcome(writes["request"].method, <<writes["request"].key>>,
                       None, cluster_config)
    /\ UNCHANGED <<initialized, key_to_env, timeVars, authVars, cluster_config,
                   env_config, calls, statVars>>

\* the env servlet's side of a set-config call: its copy takes the change
EnvApply(config, call) ==
    IF call.method = "aset_cluster_config"
    THEN call.value
    ELSE CfgSet(config, call.key, call.value)

\* a set-config call to an env servlet returns
env_call_returns(call) ==
    /\ call \in calls
    /\ env_config' = [env_config EXCEPT ![call.env] = EnvApply(@, call)]
    /\ calls' = calls \ {call}
    /\ writes' = IF call.attached
                 THEN [writes EXCEPT ![call.writer].awaiting = @ \ {call.env}]
                 ELSE writes
    /\ UNCHANGED <<initialized, key_to_env, timeVars, authVars, cluster_config,
                   statVars, last>>

\* the calls left running when the gather of writer raises: nobody waits
\* for them any more
Detach(writer, failed) ==
    {IF c.writer = writer /\ c.attached THEN [c EXCEPT !.attached = FALSE] ELSE c :
        c \in calls \ {failed}}

\* a set-config call raises: when a request's setter waits for it, gather
\* raises it in the setter, which raises it to its caller
env_call_raises(call) ==
    /\ call \in calls
    /\ call.writer = "request" \/ ~call.attached
    /\ IF call.attached
       THEN /\ calls' = Detach("request", call)
            /\ writes' = [writes EXCEPT !["request"] = IdleWrite]
            /\ last' = Outcome(call.method, <<call.key>>, "Exception", None)
       ELSE /\ calls' = calls \ {call}
            /\ UNCHANGED <<writes, last>>
    /\ UNCHANGED <<initialized, key_to_env, timeVars, authVars, cluster_config,
                   env_config, statVars>>

\* ------------------------------------------------------------------ autostop
\* the clock counts seconds

\* the seconds of a minute, in `60 * autostop_mins`
MINUTE == 60

\* the window before the autostop in which update_autostop pushes activity
AUTOSTOP_WINDOW == 120

\* time.sleep(30) of update_autostop
AUTOSTOP_SLEEP == 30

\* the step of the clock, and the time at which it stops
ClockStep == 10
Horizon == 200

\* the cluster is one that autostops
OnDemand(config) ==
    CfgGet(config, "resource_subtype") = <<"OnDemandCluster">>

\* a construction that starts the autostop thread for a positive
\* autostop_mins only
Construct_positive_only(config, sky_installed) ==
    IF ~OnDemand(config) THEN [exc |-> None, thread |-> "none"]
    ELSE IF "autostop_mins" \notin DOMAIN config
         THEN [exc |-> "TypeError", thread |-> "none"]
    ELSE IF config.autostop_mins > 0 /\ ~sky_installed
         THEN [exc |-> "ImportError", thread |-> "none"]
    ELSE IF config.autostop_mins > 0
         THEN [exc |-> None, thread |-> "started"]
    ELSE [exc |-> None, thread |-> "none"]

\* ClusterServlet.__init__, the part for autostop: the exception it raises
\* (None > 0 is a TypeError) and the thread it starts
Construct(config, sky_installed) ==
    IF ~OnDemand(config) THEN [exc |-> None, thread |-> "none"]
    ELSE IF "autostop_mins" \notin DOMAIN config
         THEN [exc |-> "TypeError", thread |-> "none"]
    ELSE IF config.autostop_mins > 0 /\ ~sky_installed
         THEN [exc |-> "ImportError", thread |-> "none"]
    ELSE [exc |-> None, thread |-> "started"]

\* the servlet exists and the node is up
NodeUp == autostop.node = "up"

\* ClusterServlet.update_autostop up to its loop: the import of sky.skylet
\* ends the thread when sky is not installed
update_autostop_starts ==
    /\ NodeUp
    /\ autostop.thread = "started"
    /\ autostop' = [autostop EXCEPT
                       !.thread = IF autostop.sky_installed THEN "running"
                                  ELSE "dead",
                       !.wake = now]
    /\ UNCHANGED <<initialized, key_to_env, last_activity, sky_last_active, now,
                   restVars, last>>

\* the condition of update_autostop under which it pushes the activity
ShouldRegister(autostop_mins, last_register, time, activity) ==
    /\ autostop_mins > 0
    /\ \/ last_register = 0
       \/ /\ MINUTE * autostop_mins - (time - last_register) < AUTOSTOP_WINDOW
          /\ activity > last_register

\* an update_autostop that pushes any newer activity
ShouldRegister_newer(autostop_mins, last_register, time, activity) ==
    /\ autostop_mins > 0
    /\ \/ last_register = 0
       \/ activity > last_register

\* one turn of the loop of an update_autostop that registers when
\* should_register says so
UpdateAutostop(should_register) ==
    /\ NodeUp
    /\ autostop.thread = "running"
    /\ now >= autostop.wake
    /\ sky_last_active' = IF should_register THEN last_activity
                          ELSE sky_last_active
    /\ autostop' = [autostop EXCEPT !.wake = now + AUTOSTOP_SLEEP]
    /\ last' = Outcome("update_autostop",
                       <<autostop.idle_minutes, sky_last_active, now,
                         last_activity>>,
                       None, should_register)
    /\ UNCHANGED <<initialized, key_to_env, last_activity, now, restVars>>

\* a turn of the loop that pushes any newer activity
update_autostop_newer ==
    UpdateAutostop(ShouldRegister_newer(autostop.idle_minutes, sky_last_active,
                                        now, last_activity))

\* ClusterServlet.update_autostop, one turn of its loop: sky's
\* autostop_last_active_time is read into self._last_register, the activity
\* is pushed or not, and the thread sleeps
update_autostop ==
    UpdateAutostop(ShouldRegister(autostop.idle_minutes, sky_last_active, now,
                                  last_activity))

\* sky's idle time is up: its autostop_last_active_time is idle_minutes old
IdleDeadlineReached ==
    /\ autostop.idle_minutes > 0
    /\ sky_last_active # 0
    /\ now - sky_last_active >= MINUTE * autostop.idle_minutes

\* the thread of update_autostop is due for a turn at this time
MonitorDue ==
    \/ autostop.thread = "started"
    \/ autostop.thread = "running" /\ now >= autostop.wake

\* sky stops the node when its idle time is up; a turn of update_autostop due
\* at the same time comes first
sky_stops_node ==
    /\ NodeUp
    /\ IdleDeadlineReached
    /\ ~MonitorDue
    /\ autostop' = [autostop EXCEPT !.node = "stopped"]
    /\ UNCHANGED <<initialized, key_to_env, last_activity, sky_last_active, now,
                   restVars, last>>

\* time passes on a node that is up: update_autostop sleeps 30 seconds and
\* no longer, and sky stops the node as soon as its idle time is up
ClockTick ==
    /\ NodeUp
    /\ now < Horizon
    /\ ~MonitorDue
    /\ ~IdleDeadlineReached
    /\ now' = now + ClockStep
    /\ last' = Outcome("tick", <<>>, None, None)
    /\ UNCHANGED <<initialized, key_to_env, last_activity, sky_last_active,
                   autostop, restVars>>

\* the cluster configs a node is constructed with
AutostopConfigs ==
    {[name |-> ClusterName],
     [name |-> ClusterName, resource_subtype |-> "Cluster", autostop_mins |-> 1],
     [name |-> ClusterName, resource_subtype |-> "OnDemandCluster"]}
        \cup {[name |-> ClusterName, resource_subtype |-> "OnDemandCluster",
                autostop_mins |-> mins] : mins \in {-1, 0, 1}}

\* autostop_idle_minutes of sky's autostop_config
SkyIdleMinutes == {-1, 1, 3}

\* ClusterServlet.__init__ with a cluster config, on a node with or without
\* sky, at the first step of the clock
InitAutostop ==
    /\ initialized = {}
    /\ key_to_env = <<>>
    /\ now = ClockStep
    /\ cluster_config \in AutostopConfigs
    /\ sky_last_active \in {0, ClockStep}
    /\ \E sky_installed \in BOOLEAN, idle_minutes \in SkyIdleMinutes :
           LET made == Construct(cluster_config, sky_installed)
           IN  /\ autostop = [thread |-> made.thread,
                              sky_installed |-> sky_installed,
                              idle_minutes |-> idle_minutes,
                              wake |-> 0,
                              node |-> IF made.exc = None THEN "up"
                                       ELSE "failed"]
               /\ last = Outcome("__init__", <<cluster_config, sky_installed>>,
                                 made.exc, None)
    /\ last_activity = IF autostop.thread = "started" THEN now ELSE 0
    /\ owner_token = "OWNER"
    /\ auth_cache = EmptyCache
    /\ auth_trace = <<>>
    /\ env_config = [e \in EnvNames |-> <<>>]
    /\ writes = [w \in Writers |-> IdleWrite]
    /\ calls = {}
    /\ polls = [c \in Callers |-> IdlePoll]
    /\ reporter = [pc |-> "unscheduled", interval_size |-> <<>>, after |-> "loop",
                   slept |-> <<>>]
    /\ den_post = <<>>

\* the keys and values a request sets on a node that autostops
AutostopValueInputs ==
    {<<"autostop_mins", -1>>, <<"autostop_mins", 0>>, <<"autostop_mins", 1>>,
     <<"creds", "secret">>}

\* the node takes requests: it is up and sky is not about to stop it
Serving == NodeUp /\ ~IdleDeadlineReached

\* the autostop thread beside lookups of keys and writes of config values,
\* while time passes and sky watches the idle time
NextAutostop ==
    \/ update_autostop_starts
    \/ update_autostop
    \/ sky_stops_node
    \/ ClockTick
    \/ Serving /\ \E k \in Keys : aget_env_servlet_name_for_key(k)
    \/ Serving /\ \E kv \in AutostopValueInputs :
                      aset_cluster_config_value(kv[1], kv[2])

SpecAutostop == InitAutostop /\ [][NextAutostop]_vars

\* ------------------------------------------------------- status aggregation

\* what status_local of an env servlet answers: the objects it holds and its
\* utilization data
LocalStatuses ==
    {[kind |-> "ok", objects |-> <<>>, util |-> <<>>],
     [kind |-> "ok", objects |-> <<"obj1">>, util |-> [cpu |-> 1]]}

\* how the call of status_local on an env servlet ends: with an answer, with
\* an ObjStoreError, or with any other exception
LocalReplies ==
    LocalStatuses \cup {[kind |-> "ObjStoreError", objects |-> <<>>, util |-> <<>>],
                        [kind |-> "Exception", objects |-> <<>>, util |-> <<>>]}

Pending == [kind |-> "pending", objects |-> <<>>, util |-> <<>>]

\* the start of astatus that leaves the credentials in the copy
AstatusBegin_no_pop(caller) ==
    /\ polls[caller].pc = "idle"
    /\ UNCHANGED cluster_config
    /\ polls' = [polls EXCEPT ![caller] =
                    [pc |-> "gather",
                     config_cluster |-> cluster_config,
                     tasks |-> initialized,
                     started_with |-> initialized,
                     replies |-> [e \in initialized |-> Pending]]]

\* ClusterServlet.astatus up to its gather: the copy of the config without
\* the credentials, and one task per env servlet name of the initialized set
AstatusBegin(caller) ==
    /\ polls[caller].pc = "idle"
    /\ UNCHANGED cluster_config
    /\ polls' = [polls EXCEPT ![caller] =
                    [pc |-> "gather",
                     config_cluster |-> CfgPop(cluster_config, "creds"),
                     tasks |-> initialized,
                     started_with |-> initialized,
                     replies |-> [e \in initialized |-> Pending]]]

\* every task of the gather is done
AllReplied(poll) ==
    /\ poll.pc = "gather"
    /\ \A e \in poll.tasks : poll.replies[e].kind # "pending"

\* ClusterServlet._cluster_status_helper: the call of status_local on an env
\* servlet ends; an ObjStoreError is caught, any other exception is not
status_local_replies(caller, env, reply) ==
    /\ polls[caller].pc = "gather"
    /\ env \in polls[caller].tasks
    /\ polls[caller].replies[env].kind = "pending"
    /\ polls' = [polls EXCEPT ![caller].replies[env] = reply]
    /\ UNCHANGED <<initialized, key_to_env, timeVars, authVars, cfgVars,
                   reporter, den_post, last>>

\* a result of astatus keyed by the env servlets initialized when it ends
astatus_result_current_names(poll) ==
    [exc |-> None,
     ret |-> [cluster_config |-> poll.config_cluster,
              env_resource_mapping |->
                  [e \in initialized |->
                      IF e \in poll.tasks THEN poll.replies[e].objects ELSE <<>>],
              env_servlet_processes |->
                  [e \in initialized |->
                      IF e \in poll.tasks THEN poll.replies[e].util ELSE <<>>],
              runhouse_version |-> "version",
              server_pid |-> "pid",
              system_cpu_usage |-> "sampled",
              system_memory_usage |-> "sampled",
              system_disk_usage |-> "sampled"]]

\* ClusterServlet.astatus after its gather: the exception it raises (None
\* when it returns) and the ResourceStatusData it returns.  gather hands an
\* exception that _cluster_status_helper did not catch back as a result, and
\* env_status.get on it raises AttributeError.
astatus_result(poll) ==
    IF \E e \in poll.tasks : poll.replies[e].kind = "Exception"
    THEN [exc |-> "AttributeError", ret |-> <<>>]
    ELSE [exc |-> None,
          ret |-> [cluster_config |-> poll.config_cluster,
                   env_resource_mapping |->
                       [e \in poll.tasks |->
                           IF poll.replies[e].kind = "ObjStoreError"
                           THEN <<>> ELSE poll.replies[e].objects],
                   env_servlet_processes |->
                       [e \in poll.tasks |->
                           IF poll.replies[e].kind = "ObjStoreError"
                           THEN <<>> ELSE poll.replies[e].util],
                   runhouse_version |-> "version",
                   server_pid |-> "pid",
                   system_cpu_usage |-> "sampled",
                   system_memory_usage |-> "sampled",
                   system_disk_usage |-> "sampled"]]

\* ClusterServlet.astatus, called by a request, up to its gather
astatus ==
    /\ AstatusBegin("request")
    /\ last' = Outcome("astatus", <<>>, SUSPENDED, None)
    /\ UNCHANGED <<initialized, key_to_env, timeVars, authVars, env_config,
                   writes, calls, reporter, den_post>>

\* ClusterServlet.astatus, called by a request, after its gather; the
\* outcome keeps the initialized set the call started with and the replies
astatus_returns ==
    /\ AllReplied(polls["request"])
    /\ polls' = [polls EXCEPT !["request"] = IdlePoll]
    /\ last' = Outcome("astatus",
                       <<polls["request"].started_with, polls["request"].replies>>,
                       astatus_result(polls["request"]).exc,
                       astatus_result(polls["request"]).ret)
    /\ UNCHANGED <<initialized, key_to_env, timeVars, authVars, cfgVars,
                   reporter, den_post>>

\* ------------------------------------------------------ the reports to Den

\* how requests.post ends: a response with a status code, or an exception
PostOutcomes == {"200", "500", "ConnectionError"}

\* ClusterServlet.schedule_post_status: the timer that starts
\* send_status_info_to_den in its own thread
schedule_post_status ==
    /\ reporter.pc = "unscheduled"
    /\ reporter' = [reporter EXCEPT !.pc = "timer"]
    /\ UNCHANGED <<initialized, key_to_env, timeVars, authVars, cfgVars,
                   polls, den_post, last>>

\* asend_status_info_to_den, the top of the loop: the interval is read; the
\* disabled interval breaks out of the loop, through the finally clause;
\* any other starts astatus
report_cycle_starts ==
    /\ reporter.pc \in {"timer", "cycle"}
    /\ LET interval_size == CfgGet(cluster_config, "den_status_ping_interval")
       IN  IF interval_size = <<DISABLED_INTERVAL>>
           THEN /\ reporter' = [pc |-> "finally", interval_size |-> interval_size,
                                after |-> "break", slept |-> <<>>]
                /\ UNCHANGED <<polls, cluster_config>>
           ELSE /\ reporter' = [pc |-> "astatus", interval_size |-> interval_size,
                                after |-> "loop", slept |-> <<>>]
                /\ AstatusBegin("reporter")
    /\ UNCHANGED <<initialized, key_to_env, timeVars, authVars, env_config,
                   writes, calls, den_post, last>>

\* asend_status_info_to_den: astatus raises, into the except clause
report_status_raises ==
    /\ reporter.pc = "astatus"
    /\ AllReplied(polls["reporter"])
    /\ astatus_result(polls["reporter"]).exc # None
    /\ polls' = [polls EXCEPT !["reporter"] = IdlePoll]
    /\ reporter' = [reporter EXCEPT !.pc = "except"]
    /\ UNCHANGED <<initialized, key_to_env, timeVars, authVars, cfgVars,
                   den_post, last>>

\* the body of the POST: status_data of asend_status_info_to_den
StatusData(status) ==
    [status |-> "running",
     resource_type |-> CfgGet(status.cluster_config, "resource_type"),
     data |-> status]

\* asend_status_info_to_den: astatus returns and the status is posted to
\* Den.  A response is logged, with the interval after a 200: a missing
\* interval raises TypeError there.  An exception of requests.post, or of the
\* log line, goes to the except clause.
report_posts(outcome) ==
    /\ reporter.pc = "astatus"
    /\ AllReplied(polls["reporter"])
    /\ astatus_result(polls["reporter"]).exc = None
    /\ polls' = [polls EXCEPT !["reporter"] = IdlePoll]
    /\ den_post' = IF outcome = "ConnectionError"
                   THEN den_post
                   ELSE StatusData(astatus_result(polls["reporter"]).ret)
    /\ reporter' = [reporter EXCEPT !.pc =
                       IF \/ outcome = "ConnectionError"
                          \/ outcome = "200" /\ reporter.interval_size = <<>>
                       THEN "except" ELSE "finally"]
    /\ UNCHANGED <<initialized, key_to_env, timeVars, authVars, cfgVars, last>>

\* asend_status_info_to_den, the except clause: the interval is set to
\* INCREASED_STATUS_CHECK_INTERVAL with aset_cluster_config_value
report_escalates ==
    /\ reporter.pc = "except"
    /\ SetConfigValue("reporter", "den_status_ping_interval",
                      INCREASED_STATUS_CHECK_INTERVAL)
    /\ reporter' = [reporter EXCEPT !.pc =
                       IF Suspended("reporter") THEN "escalating"
                       ELSE "sleep_increased"]
    /\ UNCHANGED <<initialized, key_to_env, authVars, polls, den_post, last>>

\* the gather of the setter the except clause called is done
report_escalated ==
    /\ reporter.pc = "escalating"
    /\ writes["reporter"].pc = "fanout"
    /\ writes["reporter"].awaiting = {}
    /\ writes' = [writes EXCEPT !["reporter"] = IdleWrite]
    /\ reporter' = [reporter EXCEPT !.pc = "sleep_increased"]
    /\ UNCHANGED <<initialized, key_to_env, timeVars, authVars, cluster_config,
                   env_config, calls, polls, den_post, last>>

\* a set-config call of the setter the except clause called raises: the
\* exception leaves the except clause, through the finally clause
report_escalation_raises(call) ==
    /\ call \in calls
    /\ call.writer = "reporter"
    /\ call.attached
    /\ calls' = Detach("reporter", call)
    /\ writes' = [writes EXCEPT !["reporter"] = IdleWrite]
    /\ reporter' = [reporter EXCEPT !.pc = "finally", !.after = "raise"]
    /\ UNCHANGED <<initialized, key_to_env, timeVars, authVars, cluster_config,
                   env_config, polls, den_post, last>>

\* asend_status_info_to_den, the except clause:
\* asyncio.sleep(INCREASED_STATUS_CHECK_INTERVAL) is over
report_backoff_sleep_ends ==
    /\ reporter.pc = "sleep_increased"
    /\ reporter' = [reporter EXCEPT
                       !.pc = "finally",
                       !.slept = Append(@, INCREASED_STATUS_CHECK_INTERVAL)]
    /\ UNCHANGED <<initialized, key_to_env, timeVars, authVars, cfgVars,
                   polls, den_post, last>>

\* where the loop is after the finally clause: asyncio.sleep(interval_size)
\* raises TypeError for None; after it the loop goes on, is left by the
\* break, or is left by the exception that came through
AfterFinally ==
    IF reporter.interval_size = <<>> THEN "raised"
    ELSE IF reporter.after = "break" THEN "stopped"
    ELSE IF reporter.after = "raise" THEN "raised"
    ELSE "cycle"

\* a finally clause that sleeps the interval the config holds by then
report_finally_sleep_ends_stored ==
    /\ reporter.pc = "finally"
    /\ reporter' = [reporter EXCEPT
                       !.pc = AfterFinally,
                       !.slept = @ \o CfgGet(cluster_config,
                                             "den_status_ping_interval")]
    /\ UNCHANGED <<initialized, key_to_env, timeVars, authVars, cfgVars,
                   polls, den_post, last>>

\* asend_status_info_to_den, the finally clause: asyncio.sleep(interval_size)
\* with the interval the cycle read at its start
report_finally_sleep_ends ==
    /\ reporter.pc = "finally"
    /\ reporter' = [reporter EXCEPT
                       !.pc = AfterFinally,
                       !.slept = @ \o reporter.interval_size]
    /\ UNCHANGED <<initialized, key_to_env, timeVars, authVars, cfgVars,
                   polls, den_post, last>>

\* ------------------------------------------------------ status: the spec

\* the cluster configs a node starts with
InitConfigs ==
    {[name |-> ClusterName, den_status_ping_interval |-> 1],
     [name |-> ClusterName, den_status_ping_interval |-> 1, creds |-> "secret"]}

InitStatus ==
    /\ InitServlet
    /\ owner_token = "OWNER"
    /\ cluster_config \in InitConfigs

\* requests for the status while env servlets come and go
NextStatus ==
    \/ \E e \in EnvNames : amark_env_servlet_name_as_initialized(e)
    \/ \E e \in EnvNames : aclear_all_references_to_env_servlet_name(e)
    \/ astatus
    \/ \E e \in EnvNames, r \in LocalReplies :
           status_local_replies("request", e, r)
    \/ astatus_returns

SpecStatus == InitStatus /\ [][NextStatus]_vars

\* ----------------------------------------------- reports to Den: the spec

\* the env servlet of the node that reports
ReportEnvs == {"envA"}

\* how its status_local ends
ReportReplies ==
    {[kind |-> "ok", objects |-> <<"obj1">>, util |-> [cpu |-> 1]],
     [kind |-> "ObjStoreError", objects |-> <<>>, util |-> <<>>],
     [kind |-> "Exception", objects |-> <<>>, util |-> <<>>]}

\* the configs a request sets
SetConfigInputs ==
    {[name |-> ClusterName, creds |-> "secret"]}

\* the keys and values a request sets
SetValueInputs ==
    {<<"creds", "secret">>, <<"den_status_ping_interval", DISABLED_INTERVAL>>}

\* the loop that reports to Den, beside requests that set the config and
\* requests for the status
NextReport ==
    \/ \E e \in ReportEnvs : amark_env_servlet_name_as_initialized(e)
    \/ \E c \in SetConfigInputs : aset_cluster_config(c)
    \/ \E kv \in SetValueInputs : aset_cluster_config_value(kv[1], kv[2])
    \/ config_write_returns
    \/ \E c \in calls : env_call_returns(c)
    \/ \E c \in calls : env_call_raises(c)
    \/ astatus
    \/ \E c \in Callers, e \in ReportEnvs, r \in ReportReplies :
           status_local_replies(c, e, r)
    \/ astatus_returns
    \/ schedule_post_status
    \/ report_cycle_starts
    \/ report_status_raises
    \/ \E o \in PostOutcomes : report_posts(o)
    \/ report_escalates
    \/ report_escalated
    \/ \E c \in calls : report_escalation_raises(c)
    \/ report_backoff_sleep_ends
    \/ report_finally_sleep_ends

SpecReport == InitStatus /\ [][NextReport]_vars

\* ------------------------------------------ claims on the status snapshot

\* the last call is an astatus of a request that is over: its arguments keep
\* the initialized set it started with and the replies it got
StatusIsOver == last.op = "astatus" /\ last.exc # SUSPENDED

\* C8: the keys of env_resource_mapping and of env_servlet_processes in a
\* snapshot astatus returns are the initialized set as it was when the call
\* started, whatever was marked or retired while the calls of status_local
\* were running, and an env servlet whose call failed is there with an empty
\* list.
C8_SnapshotKeysAtPollStart ==
    (StatusIsOver /\ last.exc = None)
    => LET started_with == last.args[1]
           replies == last.args[2]
       IN  /\ DOMAIN last.ret.env_resource_mapping = started_with
           /\ DOMAIN last.ret.env_servlet_processes = started_with
           /\ \A e \in started_with :
                  replies[e].kind # "ok"
                  => last.ret.env_resource_mapping[e] = <<>>

\* a snapshot was returned for two env servlets, one of which failed, after
\* the initialized set changed
C8_Witness ==
    /\ StatusIsOver
    /\ last.exc = None
    /\ Cardinality(last.args[1]) >= 2
    /\ initialized # last.args[1]
    /\ \E e \in last.args[1] : last.args[2][e].kind = "ObjStoreError"

\* C9 as claimed: whatever the failure of the status_local call of one env
\* servlet, astatus returns; the env servlet that failed has an empty object
\* list and an empty utilization map, and every other has what it answered.
C9_WorkerFailureNeverAborts ==
    StatusIsOver
    => /\ last.exc = None
       /\ \A e \in last.args[1] :
              IF last.args[2][e].kind = "ok"
              THEN /\ last.ret.env_resource_mapping[e] = last.args[2][e].objects
                   /\ last.ret.env_servlet_processes[e] = last.args[2][e].util
              ELSE /\ last.ret.env_resource_mapping[e] = <<>>
                   /\ last.ret.env_servlet_processes[e] = <<>>

\* C10: the cluster_config of a snapshot astatus returns, and of a status
\* posted to Den, never has the key creds, whatever the config holds and
\* whatever is set while the status is gathered; and a step of astatus leaves
\* self.cluster_config, its creds included, as it is.
C10_CredentialsRedacted ==
    /\ [](/\ (StatusIsOver /\ last.exc = None)
              => "creds" \notin DOMAIN last.ret.cluster_config
          /\ den_post # <<>>
              => "creds" \notin DOMAIN den_post.data.cluster_config)
    /\ [][polls' # polls => cluster_config' = cluster_config]_vars

\* a status was posted to Den and a snapshot returned to a request while the
\* config holds credentials
C10_Witness ==
    /\ den_post # <<>>
    /\ StatusIsOver
    /\ last.exc = None
    /\ "creds" \in DOMAIN cluster_config

\* ------------------------------------------- the loop on its own: the spec

\* den_status_ping_interval of the config the node starts with: none, the
\* disabled one, and intervals under, at and over
\* INCREASED_STATUS_CHECK_INTERVAL
LoopConfigs ==
    {[name |-> ClusterName]}
        \cup {[name |-> ClusterName, den_status_ping_interval |-> i] :
                  i \in {DISABLED_INTERVAL, 1, INCREASED_STATUS_CHECK_INTERVAL,
                         INCREASED_STATUS_CHECK_INTERVAL + 1}}

InitLoop ==
    /\ InitServlet
    /\ owner_token = "OWNER"
    /\ cluster_config \in LoopConfigs

\* the loop that reports to Den with no request beside it
NextLoop ==
    \/ \E e \in EnvNames : amark_env_servlet_name_as_initialized(e)
    \/ schedule_post_status
    \/ report_cycle_starts
    \/ \E e \in EnvNames, r \in ReportReplies :
           status_local_replies("reporter", e, r)
    \/ report_status_raises
    \/ \E o \in PostOutcomes : report_posts(o)
    \/ report_escalates
    \/ \E c \in calls : env_call_returns(c)
    \/ \E c \in calls : env_call_raises(c)
    \/ report_escalated
    \/ \E c \in calls : report_escalation_raises(c)
    \/ report_backoff_sleep_ends
    \/ report_finally_sleep_ends

SpecLoop == InitLoop /\ [][NextLoop]_vars

\* ------------------------------------------- claims on the reports to Den

\* the interval stored in the config is the one that stops the reports
Disabled(config) ==
    CfgGet(config, "den_status_ping_interval") = <<DISABLED_INTERVAL>>

\* C11 as claimed: once den_status_ping_interval is -1, no step of the loop
\* that reports to Den writes another interval over it; the next cycle the
\* loop starts breaks out of the loop without starting astatus and without a
\* POST; and a loop that stopped stays stopped.
C11_DisabledStopsNextCycle ==
    [][ /\ (Disabled(cluster_config) /\ reporter' # reporter)
            => /\ Disabled(cluster_config')
               /\ reporter.pc \in {"timer", "cycle"}
                   => /\ reporter'.after = "break"
                      /\ polls' = polls
                      /\ den_post' = den_post
        /\ reporter.pc = "stopped" => reporter'.pc = "stopped"
      ]_vars

\* C12 as claimed: asend_status_info_to_den is never left by an exception,
\* whatever raises in a cycle; the loop ends only by reading the disabled
\* interval.
C12_LoopNeverEndsByFailure ==
    /\ reporter.pc # "raised"
    /\ reporter.pc = "stopped" => reporter.interval_size = <<DISABLED_INTERVAL>>

\* C15 as claimed: a cycle that ends without an exception goes to one wait
\* of the interval; a cycle that raised waits
\* INCREASED_STATUS_CHECK_INTERVAL and then the interval just stored, which
\* is INCREASED_STATUS_CHECK_INTERVAL again; then the next cycle starts.
C15_WaitsEscalatedInterval ==
    [][ /\ (reporter.pc = "astatus" /\ reporter'.pc = "finally")
            => reporter'.slept = <<>>
        /\ (reporter.pc = "sleep_increased" /\ reporter'.pc = "finally")
            => reporter'.slept = <<INCREASED_STATUS_CHECK_INTERVAL>>
        /\ (reporter.pc = "finally" /\ reporter'.pc = "cycle")
            => reporter'.slept =
                   IF reporter.slept = <<>>
                   THEN reporter.interval_size
                   ELSE <<INCREASED_STATUS_CHECK_INTERVAL,
                          INCREASED_STATUS_CHECK_INTERVAL>>
      ]_vars

\* C15, amended: the wait of the finally clause is the interval the cycle
\* read at its start, after a cycle that raised too; and the loop is left
\* by an exception there when that interval is None or when the write of the
\* except clause raised.
C15_WaitsIntervalReadAtStart ==
    [][ /\ (reporter.pc = "astatus" /\ reporter'.pc = "finally")
            => reporter'.slept = <<>>
        /\ (reporter.pc = "sleep_increased" /\ reporter'.pc = "finally")
            => reporter'.slept = <<INCREASED_STATUS_CHECK_INTERVAL>>
        /\ (reporter.pc = "finally" /\ reporter'.pc = "cycle")
            => /\ reporter'.slept = reporter.slept \o reporter.interval_size
               /\ reporter.interval_size # <<>>
               /\ reporter.after = "loop"
        /\ (reporter.pc = "finally" /\ reporter'.pc = "raised")
            => reporter.interval_size = <<>> \/ reporter.after = "raise"
      ]_vars

\* a cycle that raised is over, and the loop waited
\* INCREASED_STATUS_CHECK_INTERVAL and then the smaller interval it had read
C15_Witness ==
    /\ reporter.pc = "cycle"
    /\ reporter.slept = <<INCREASED_STATUS_CHECK_INTERVAL, 1>>
    /\ cluster_config.den_status_ping_interval = INCREASED_STATUS_CHECK_INTERVAL

\* the interval the config holds, as <<interval>>, and <<>> for none
Stored(config) == CfgGet(config, "den_status_ping_interval")

\* C16 as claimed: the write of the except clause stores
\* INCREASED_STATUS_CHECK_INTERVAL, which is not under the interval stored
\* before; no step of the loop lowers the stored interval; and a response
\* that is not a 200 leaves the config as it is.
C16_EscalationOnlyWidens ==
    [][ /\ (reporter.pc = "except" /\ reporter'.pc # "except")
            => Stored(cluster_config') = <<INCREASED_STATUS_CHECK_INTERVAL>>
        /\ (reporter' # reporter /\ Stored(cluster_config) # <<>>)
            => /\ Stored(cluster_config') # <<>>
               /\ Stored(cluster_config')[1] >= Stored(cluster_config)[1]
        /\ (reporter.pc = "astatus" /\ reporter'.pc = "finally")
            => cluster_config' = cluster_config
      ]_vars

\* ----------------------------------------------- config writes: the spec

\* the env servlets of the node whose config is set
ConfigEnvs == {"envA", "envB"}

\* requests that read and set the config while env servlets are initialized
\* and their set-config calls return or raise
NextConfig ==
    \/ \E e \in ConfigEnvs : amark_env_servlet_name_as_initialized(e)
    \/ aget_cluster_config
    \/ \E c \in SetConfigInputs : aset_cluster_config(c)
    \/ \E kv \in SetValueInputs : aset_cluster_config_value(kv[1], kv[2])
    \/ config_write_returns
    \/ \E c \in calls : env_call_returns(c)
    \/ \E c \in calls : env_call_raises(c)

SpecConfig == InitStatus /\ [][NextConfig]_vars

\* ------------------------------------------------- claims on config writes

\* the setters of the cluster config
ConfigSetters == {"aset_cluster_config", "aset_cluster_config_value"}

\* the set-config calls a request's setter waits for
Awaited(cs) == {c \in cs : c.writer = "request" /\ c.attached}

\* the step is a call on the servlet, or the end of one: values of last hold
\* arguments of any type, so they are compared as text
NewOutcome == ToString(last') # ToString(last)

\* C13: a setter that suspends has sent, to every env servlet initialized at
\* that moment, the set-config call with the new value, and waits for all of
\* them; an env servlet leaves the ones waited for only when its call has
\* returned and its copy has taken the change; and a setter returns only when
\* no call it waits for is left (at once only when no env servlet is
\* initialized).
C13_WriteReturnsAfterFanOut ==
    [][ /\ (NewOutcome /\ last'.op \in ConfigSetters /\ last'.exc = SUSPENDED)
            => /\ writes'["request"].awaiting = initialized
               /\ initialized # {}
               /\ \A e \in initialized :
                      \E c \in Awaited(calls') \ calls :
                          /\ c.env = e
                          /\ c.method = last'.op
                          /\ IF c.method = "aset_cluster_config"
                             THEN c.value = last'.args[1]
                             ELSE c.key = last'.args[1] /\ c.value = last'.args[2]
        /\ (writes["request"].pc = "fanout" /\ writes'["request"].pc = "fanout")
            => \A e \in writes["request"].awaiting \ writes'["request"].awaiting :
                   \E c \in Awaited(calls) \ calls' :
                       /\ c.env = e
                       /\ env_config'[e] = EnvApply(env_config[e], c)
        /\ (NewOutcome /\ last'.op \in ConfigSetters /\ last'.exc = None)
            => /\ Awaited(calls') = {}
               /\ writes["request"].pc = "fanout"
                   => writes["request"].awaiting = {}
               /\ writes["request"].pc = "idle" => initialized = {}
      ]_vars

\* a setter that waited for the calls to two env servlets has returned, and
\* both copies hold what it set
C13_Witness ==
    /\ last.op = "aset_cluster_config_value"
    /\ last.args = <<"creds">>
    /\ last.exc = None
    /\ initialized = ConfigEnvs
    /\ \A e \in initialized : "creds" \in DOMAIN env_config[e]

\* C14 as claimed: aset_cluster_config and aset_cluster_config_value surface
\* no error when a set-config call to an env servlet fails: they wait for
\* every call and return the config.
C14_PropagationFailureSwallowed ==
    last.op \in ConfigSetters => last.exc \in {None, SUSPENDED}

\* ------------------------------------------------------ claims on autostop

\* the step is a call of aset_cluster_config_value that did not suspend
SetValueCall ==
    /\ NewOutcome
    /\ last'.op = "aset_cluster_config_value"
    /\ Len(last'.args) = 2

\* the step records the time as the last activity and pushes it to sky
RecordsActivity ==
    /\ last_activity' = now
    /\ sky_last_active' = now

\* C17 as claimed: aset_cluster_config_value records the time as the last
\* activity and pushes it to sky if and only if the key is autostop_mins and
\* the value is over 0; otherwise it leaves both as they are.
C17_PositiveAutostopIsActivity ==
    [][ (SetValueCall /\ last'.exc = None)
        => IF last'.args[1] = "autostop_mins" /\ last'.args[2] > 0
           THEN RecordsActivity
           ELSE UNCHANGED <<last_activity, sky_last_active>>
      ]_vars

\* C17, amended: it does so if and only if the key is autostop_mins and the
\* value is over -1, 0 included, on a node where sky can be imported; where
\* it cannot, the call raises ImportError and changes nothing.
C17_AutostopOverMinusOneIsActivity ==
    [][ SetValueCall
        => IF last'.args[1] = "autostop_mins" /\ last'.args[2] > -1
           THEN IF autostop.sky_installed
                THEN RecordsActivity /\ last'.exc = None
                ELSE /\ last'.exc = "ImportError"
                     /\ UNCHANGED <<last_activity, sky_last_active,
                                    cluster_config>>
           ELSE /\ UNCHANGED <<last_activity, sky_last_active>>
                /\ last'.exc = None
      ]_vars

\* autostop_mins was set to 0 at a time after the last lookup of a key, and
\* the time was recorded and pushed
C17_Witness ==
    /\ last.op = "aset_cluster_config_value"
    /\ last.args = <<"autostop_mins", 0>>
    /\ last.exc = None
    /\ last_activity = now
    /\ sky_last_active = now
    /\ now > ClockStep

\* the config has an autostop_mins over 0 on a cluster that autostops
PositiveAutostop(config) ==
    /\ OnDemand(config)
    /\ "autostop_mins" \in DOMAIN config
    /\ config.autostop_mins > 0

\* C18 as claimed: __init__ starts the autostop thread only for an
\* OnDemandCluster with an autostop_mins over 0; for every other config no
\* thread runs and sky is neither required nor used.
C18_MonitorOnlyForPositiveAutostop ==
    last.op = "__init__"
    => /\ autostop.thread = "started" => PositiveAutostop(last.args[1])
       /\ last.exc = "ImportError" => PositiveAutostop(last.args[1])

\* C18, amended: __init__ starts the autostop thread for every
\* OnDemandCluster it constructs, whatever its autostop_mins, and for no
\* other cluster; it requires sky, with an ImportError, only for an
\* autostop_mins over 0; and the thread never runs on a node whose cluster is
\* no OnDemandCluster.
C18_MonitorForEveryOnDemandCluster ==
    /\ last.op = "__init__"
       => /\ autostop.thread # "none"
              <=> (OnDemand(last.args[1]) /\ last.exc = None)
          /\ last.exc = "ImportError"
              <=> (PositiveAutostop(last.args[1]) /\ ~last.args[2])
          /\ last.exc # None => autostop.node = "failed"
    /\ autostop.thread # "none" => OnDemand(cluster_config)

\* an OnDemandCluster was constructed with an autostop_mins that is not over
\* 0, and its autostop thread was started
C18_Witness ==
    /\ last.op = "__init__"
    /\ last.exc = None
    /\ OnDemand(last.args[1])
    /\ last.args[1].autostop_mins <= 0
    /\ autostop.thread = "started"

\* C19: a turn of update_autostop writes sky's autostop_last_active_time if
\* and only if sky's autostop_idle_minutes is over 0 and either sky has no
\* time recorded, or the time left to the autostop is under the window of 120
\* seconds and the local last activity is newer than sky's time; it writes
\* the local last activity; and with a time recorded and the autostop further
\* away than the window nothing is written, however new the activity.
C19_DebouncedPush ==
    [][ (NewOutcome /\ last'.op = "update_autostop")
        => LET idle == autostop.idle_minutes
               left == MINUTE * idle - (now - sky_last_active)
               pushes == /\ idle > 0
                         /\ \/ sky_last_active = 0
                            \/ /\ left < AUTOSTOP_WINDOW
                               /\ last_activity > sky_last_active
           IN  /\ pushes => sky_last_active' = last_activity
               /\ ~pushes => sky_last_active' = sky_last_active
               /\ (sky_last_active # 0 /\ left >= AUTOSTOP_WINDOW)
                      => sky_last_active' = sky_last_active
               /\ last'.ret = pushes
      ]_vars

\* a turn of update_autostop wrote nothing although the local activity was
\* newer than sky's time, the autostop being further away than the window
C19_Witness ==
    /\ last.op = "update_autostop"
    /\ last.ret = FALSE
    /\ last.args[1] > 0
    /\ last.args[2] # 0
    /\ last.args[4] > last.args[2]
    /\ sky_last_active = last.args[2]

\* C20 as claimed: sky, which stops the node when its
\* autostop_last_active_time is idle_minutes old, never stops a node whose
\* update_autostop runs every 30 seconds while the local last activity is
\* newer than that time: every activity before the deadline was pushed.
C20_NoAutostopOverActivity ==
    (autostop.node = "stopped" /\ autostop.thread = "running")
    => ~(last_activity > sky_last_active)

\* ------------------------------------------------- claims on shared state

\* the places of asend_status_info_to_den from which its next step reads or
\* writes self.cluster_config: the read of the interval at the top of the
\* loop, and the write of the except clause
ReporterAtConfig == reporter.pc \in {"timer", "cycle", "except"}

\* C21 as claimed: the thread that reports to Den never holds anything taken
\* from the directory (the initialized set), neither in its astatus nor in
\* the fan-out of its config write; and it takes no step that reads or
\* writes the cluster config while a setter of a request is between its
\* write of the config and its return.
C21_SharedStateExclusive ==
    /\ [](/\ polls["reporter"].started_with = {}
          /\ writes["reporter"].pc = "idle")
    /\ [][ (ReporterAtConfig /\ reporter' # reporter)
           => writes["request"].pc = "idle" ]_vars

\* ------------------------------------- config writes that never fail: the spec

\* no config write is in flight: no setter waits and no set-config call runs
Quiet ==
    /\ calls = {}
    /\ \A w \in Writers : writes[w].pc = "idle"

\* config writes of a request and of the loop that reports to Den, whose
\* set-config calls all return, with env servlets initialized only while no
\* write is in flight
NextConverge ==
    \/ Quiet /\ \E e \in ReportEnvs : amark_env_servlet_name_as_initialized(e)
    \/ \E c \in SetConfigInputs : aset_cluster_config(c)
    \/ \E kv \in SetValueInputs : aset_cluster_config_value(kv[1], kv[2])
    \/ config_write_returns
    \/ \E c \in calls : env_call_returns(c)
    \/ schedule_post_status
    \/ report_cycle_starts
    \/ \E e \in ReportEnvs, r \in ReportReplies :
           status_local_replies("reporter", e, r)
    \/ report_status_raises
    \/ \E o \in PostOutcomes : report_posts(o)
    \/ report_escalates
    \/ report_escalated
    \/ report_backoff_sleep_ends
    \/ report_finally_sleep_ends

SpecConverge == InitStatus /\ [][NextConverge]_vars

\* C22 as claimed: once no config write is in flight, none having failed and
\* no env servlet having been initialized during one, the copy of every
\* initialized env servlet agrees with self.cluster_config: every key the
\* copy holds is a key of the config, with the same value.
C22_ReplicasConverge ==
    Quiet
    => \A e \in initialized :
           \A k \in DOMAIN env_config[e] :
               /\ k \in DOMAIN cluster_config
               /\ env_config[e][k] = cluster_config[k]

====
